---- MODULE Spec2Model ----
(***************************************************************************)
(* Model of the loyalty service: the two in-memory repositories            *)
(* (OrderRepository, RedemptionRepository) and LoyaltyService with its     *)
(* per-user promise lock.  A redeemPoints call is followed through the     *)
(* steps of its synchronous body; JavaScript runs one call at a time       *)
(* until it awaits or returns, which the variable running records.         *)
(***************************************************************************)
EXTENDS Integers, Sequences, FiniteSets, TLC

\* ------------------------------------------------------------------ bounds
\* number of redeemPoints calls that are launched
MaxCalls == 3
\* largest value of the wall clock
MaxNow == 7
\* longest order list and redemption list drawn for the calculator
MaxLen == 2

\* ------------------------------------------------------------------ inputs
\* userIds of the calls: a user with a balance of 200 (alice), a user with
\* an empty order list (bob), a user whose balance is used up (charlie), a
\* user with a balance and no redemption yet (dave) and a userId the order
\* index does not know (zed); eve stays in the store untouched
UserIds == {"alice", "bob", "charlie", "dave", "zed"}
\* the requests made: for each userId a zero or negative amount, and the
\* positive amounts that fit or overdraw the seeded balances (alice 200,
\* bob 0, charlie 0, dave 200)
Requests ==
    { << "alice", -1 >>, << "alice", 0 >>, << "alice", 100 >>,
      << "alice", 200 >>,
      << "bob", 0 >>, << "bob", 100 >>,
      << "charlie", -1 >>, << "charlie", 1 >>,
      << "dave", 200 >>,
      << "zed", -1 >>, << "zed", 0 >>, << "zed", 100 >> }

\* ------------------------------------------------------------ seeded data
\* Timestamps are the rank of the seeded instants in time order:
\* red-e1 (01-18 12:00) = 1, red-c1 (01-19 14:30) = 2, red-e2 (01-19 16:45)
\* = 3, red-c2 (01-20 09:15) = 4, red-a1 (01-20 10:00) = 5.
Order(id, u, p, s) == [orderId |-> id, userId |-> u, points |-> p, status |-> s]

Redemption(id, u, p, t) ==
    [redemptionId |-> id, userId |-> u, points |-> p, timestamp |-> t]

SeedOrders ==
    [u \in {"alice", "bob", "charlie", "dave", "eve"} |->
        CASE u = "alice" ->
                << Order("ord-a1", "alice", 100, "active"),
                   Order("ord-a2", "alice", 150, "active"),
                   Order("ord-a3", "alice", 50, "active") >>
          [] u = "bob" -> << >>
          [] u = "charlie" ->
                << Order("ord-c1", "charlie", 500, "active") >>
          [] u = "dave" ->
                << Order("ord-d1", "dave", 200, "active"),
                   Order("ord-d2", "dave", 100, "cancelled") >>
          [] u = "eve" ->
                << Order("ord-e1", "eve", 50, "active"),
                   Order("ord-e2", "eve", 50, "active"),
                   Order("ord-e3", "eve", 50, "active"),
                   Order("ord-e4", "eve", 50, "active"),
                   Order("ord-e5", "eve", 50, "active") >>]

\* a redemption seeded for a userId that the order seed does not have
SeedRedemptionsOrphan ==
    [u \in {"alice", "zed"} |->
        CASE u = "alice" ->
                << Redemption(<<"red-a1", 0>>, "alice", 100, 5) >>
          [] u = "zed" ->
                << Redemption(<<"red-z1", 0>>, "zed", 10, 1) >>]

SeedRedemptions ==
    [u \in {"alice", "charlie", "eve"} |->
        CASE u = "alice" ->
                << Redemption(<<"red-a1", 0>>, "alice", 100, 5) >>
          [] u = "charlie" ->
                << Redemption(<<"red-c1", 0>>, "charlie", 250, 2),
                   Redemption(<<"red-c2", 0>>, "charlie", 250, 4) >>
          [] u = "eve" ->
                << Redemption(<<"red-e1", 0>>, "eve", 25, 1),
                   Redemption(<<"red-e2", 0>>, "eve", 75, 3) >>]

\* the clock starts after the newest seeded redemption
SeedNow == 6

VARIABLES
    ordersByUser,       \* OrderRepository.ordersByUser: userId -> Order[]
    redemptionsByUser,  \* RedemptionRepository.redemptionsByUser
    activeLocks,        \* LoyaltyService.activeLocks: userId -> promise
    resolved,           \* the lock promises whose lockResolve() has run
    calls,              \* the redeemPoints calls and where each one is
    running,            \* the call on the JavaScript stack, 0 when none
    now,                \* the wall clock read by new Date()
    csCount,            \* how many calls have installed their lock so far
    calcResult          \* the last result of a direct calculateBalance

vars == << ordersByUser, redemptionsByUser, activeLocks, resolved, calls,
           running, now, csCount, calcResult >>

CallIds == 1..MaxCalls

\* a lock promise is named by the call that created it; 0 is "no promise"
NoLock == 0

NoError == [kind |-> "none", available |-> 0, requested |-> 0]

NoResponse ==
    [redemptionId |-> <<"none", 0>>, userId |-> "", points |-> 0,
     timestamp |-> [iso |-> 0], newBalance |-> 0]

NoCalc ==
    [userId |-> "", earnedPoints |-> 0, redeemedPoints |-> 0, balance |-> 0]

NewCall ==
    [pc |-> "idle", userId |-> "", points |-> 0, existingLock |-> NoLock,
     seq |-> 0, balance |-> 0, repoAccess |-> 0, error |-> NoError,
     response |-> NoResponse]

\* ------------------------------------------------------------ Map helpers
\* Map.get(key) || fallback
MapGet(m, k, fallback) == IF k \in DOMAIN m THEN m[k] ELSE fallback

\* Map.set(key, value)
MapSet(m, k, v) == [x \in (DOMAIN m) \cup {k} |-> IF x = k THEN v ELSE m[x]]

\* Map.delete(key)
MapDelete(m, k) == [x \in (DOMAIN m) \ {k} |-> m[x]]

\* ----------------------------------------------------------- repositories
\* every list of a map, one after the other
RECURSIVE ConcatAll(_, _)
ConcatAll(m, K) ==
    IF K = {} THEN << >>
    ELSE LET k == CHOOSE x \in K : TRUE
         IN  m[k] \o ConcatAll(m, K \ {k})

\* the index not consulted: the orders of every user handed out
OrderFindAll(userId) == ConcatAll(ordersByUser, DOMAIN ordersByUser)

OrderFindByUserId(userId) == MapGet(ordersByUser, userId, << >>)

\* get(userId) !== null, which the undefined of a missing entry passes
userExistsAlways(userId) == TRUE

\* findByUserId(userId).length > 0: an empty order list counts as unknown
userExistsHasOrders(userId) ==
    Len(MapGet(ordersByUser, userId, << >>)) > 0

userExists(userId) == userId \in DOMAIN ordersByUser

findByUserId(userId) == MapGet(redemptionsByUser, userId, << >>)

\* the record is pushed onto a copy of the array and the copy is dropped
saveToCopy(redemption) == redemptionsByUser

\* the user's array replaced by one that holds the new record only
saveOverwrite(redemption) ==
    MapSet(redemptionsByUser, redemption.userId, << redemption >>)

\* one array shared by all entries: the record lands in every user's list
saveShared(redemption) ==
    [u \in (DOMAIN redemptionsByUser) \cup {redemption.userId} |->
        Append(findByUserId(u), redemption)]

\* unshift instead of push: the record put in front
savePrepend(redemption) ==
    MapSet(redemptionsByUser, redemption.userId,
           << redemption >> \o findByUserId(redemption.userId))

save(redemption) ==
    MapSet(redemptionsByUser, redemption.userId,
           Append(findByUserId(redemption.userId), redemption))

\* ------------------------------------------------------ balance calculator
\* Array.prototype.reduce((sum, x) => sum + x.points, 0), left to right
RECURSIVE ReducePoints(_, _)
ReducePoints(s, sum) ==
    IF s = << >> THEN sum ELSE ReducePoints(Tail(s), sum + Head(s).points)

\* only cancelled orders are left out
IsNotCancelled(order) == order.status # "cancelled"

IsActive(order) == order.status = "active"

calculateBalance(userId) ==
    LET orders == OrderFindByUserId(userId)
        redemptions == findByUserId(userId)
        earnedPoints == ReducePoints(SelectSeq(orders, IsActive), 0)
        redeemedPoints == ReducePoints(redemptions, 0)
    IN  [earnedPoints |-> earnedPoints,
         redeemedPoints |-> redeemedPoints,
         balance |-> earnedPoints - redeemedPoints]

\* getBalance: the response, or the NotFoundException
getBalance(userId) ==
    IF ~userExists(userId)
    THEN [error |-> "UserNotFound"]
    ELSE LET b == calculateBalance(userId)
         IN  [error |-> "none", userId |-> userId, balance |-> b.balance,
              earnedPoints |-> b.earnedPoints,
              redeemedPoints |-> b.redeemedPoints]

\* ------------------------------------------------------- history ordering
\* Array.prototype.sort with (a, b) => b.timestamp - a.timestamp: a stable
\* sort, newest first; elements with equal timestamps keep their order.
\* the comparator turned round: a.timestamp - b.timestamp
RECURSIVE InsertAsc(_, _)
InsertAsc(sorted, r) ==
    IF sorted = << >> THEN << r >>
    ELSE IF Head(sorted).timestamp <= r.timestamp
         THEN << Head(sorted) >> \o InsertAsc(Tail(sorted), r)
         ELSE << r >> \o sorted

\* the new element put in front of the elements of its own timestamp
RECURSIVE InsertDescTiesFirst(_, _)
InsertDescTiesFirst(sorted, r) ==
    IF sorted = << >> THEN << r >>
    ELSE IF Head(sorted).timestamp > r.timestamp
         THEN << Head(sorted) >> \o InsertDescTiesFirst(Tail(sorted), r)
         ELSE << r >> \o sorted

RECURSIVE InsertDesc(_, _)
InsertDesc(sorted, r) ==
    IF sorted = << >> THEN << r >>
    ELSE IF Head(sorted).timestamp >= r.timestamp
         THEN << Head(sorted) >> \o InsertDesc(Tail(sorted), r)
         ELSE << r >> \o sorted

RECURSIVE SortDesc(_, _)
SortDesc(s, acc) ==
    IF s = << >> THEN acc ELSE SortDesc(Tail(s), InsertDesc(acc, Head(s)))

\* ------------------------------------------------------------- scheduling
\* redeemPoints has a single await (on existingLock); everything after it is
\* synchronous, so a call that is on the stack keeps it until its finally
\* block has run, and no other call runs a step meanwhile.
\* executeRedemption awaited: a call gives up the stack inside its body
ScheduledAnyTime(c) == TRUE

Scheduled(c) == running \in {0, c}

\* the key under which a call for userId looks up and installs its lock
\* one lock for all users
LockKeyGlobal(userId) == "*"

LockKey(userId) == userId

\* ------------------------------------------------------ executeRedemption
\* The checks of executeRedemption, in the order of the code.  repoAccess
\* counts the repository methods invoked: userExists, then the two
\* findByUserId of calculateBalance.
\* the balance check left out
ValidationNoBalanceCheck(userId, points) ==
    IF points <= 0
    THEN [error |-> [kind |-> "InvalidAmount", available |-> 0,
                     requested |-> 0],
          balance |-> 0, repoAccess |-> 0]
    ELSE IF ~userExists(userId)
    THEN [error |-> [kind |-> "UserNotFound", available |-> 0,
                     requested |-> 0],
          balance |-> 0, repoAccess |-> 1]
    ELSE [error |-> NoError, balance |-> calculateBalance(userId).balance,
          repoAccess |-> 3]

\* balance <= points instead of balance < points
ValidationOffByOne(userId, points) ==
    IF points <= 0
    THEN [error |-> [kind |-> "InvalidAmount", available |-> 0,
                     requested |-> 0],
          balance |-> 0, repoAccess |-> 0]
    ELSE IF ~userExists(userId)
    THEN [error |-> [kind |-> "UserNotFound", available |-> 0,
                     requested |-> 0],
          balance |-> 0, repoAccess |-> 1]
    ELSE LET balance == calculateBalance(userId).balance
         IN  IF balance <= points
             THEN [error |-> [kind |-> "InsufficientPoints",
                              available |-> balance, requested |-> points],
                   balance |-> balance, repoAccess |-> 3]
             ELSE [error |-> NoError, balance |-> balance, repoAccess |-> 3]

\* the two amounts of the InsufficientPoints message exchanged
ValidationSwappedAmounts(userId, points) ==
    IF points <= 0
    THEN [error |-> [kind |-> "InvalidAmount", available |-> 0,
                     requested |-> 0],
          balance |-> 0, repoAccess |-> 0]
    ELSE IF ~userExists(userId)
    THEN [error |-> [kind |-> "UserNotFound", available |-> 0,
                     requested |-> 0],
          balance |-> 0, repoAccess |-> 1]
    ELSE LET balance == calculateBalance(userId).balance
         IN  IF balance < points
             THEN [error |-> [kind |-> "InsufficientPoints",
                              available |-> points, requested |-> balance],
                   balance |-> balance, repoAccess |-> 3]
             ELSE [error |-> NoError, balance |-> balance, repoAccess |-> 3]

\* the checks in the order of data-model.md: user, balance, amount
ValidationAmountLast(userId, points) ==
    IF ~userExists(userId)
    THEN [error |-> [kind |-> "UserNotFound", available |-> 0,
                     requested |-> 0],
          balance |-> 0, repoAccess |-> 1]
    ELSE LET balance == calculateBalance(userId).balance
         IN  IF balance < points
             THEN [error |-> [kind |-> "InsufficientPoints",
                              available |-> balance, requested |-> points],
                   balance |-> balance, repoAccess |-> 3]
             ELSE IF points <= 0
             THEN [error |-> [kind |-> "InvalidAmount", available |-> 0,
                              requested |-> 0],
                   balance |-> balance, repoAccess |-> 3]
             ELSE [error |-> NoError, balance |-> balance, repoAccess |-> 3]

Validation(userId, points) ==
    IF points <= 0
    THEN [error |-> [kind |-> "InvalidAmount", available |-> 0,
                     requested |-> 0],
          balance |-> 0, repoAccess |-> 0]
    ELSE IF ~userExists(userId)
    THEN [error |-> [kind |-> "UserNotFound", available |-> 0,
                     requested |-> 0],
          balance |-> 0, repoAccess |-> 1]
    ELSE LET balance == calculateBalance(userId).balance
         IN  IF balance < points
             THEN [error |-> [kind |-> "InsufficientPoints",
                              available |-> balance, requested |-> points],
                   balance |-> balance, repoAccess |-> 3]
             ELSE [error |-> NoError, balance |-> balance, repoAccess |-> 3]

\* the balance read before the save is returned as it is
NewBalanceStale(balance, points) == balance

NewBalance(balance, points) == balance - points

\* uuidv4(): a value no earlier call produced
Uuid(c) == << "uuid", c >>

\* Date.prototype.toISOString keeps the millisecond instant
ToISOString(t) == [iso |-> t]

\* ---------------------------------------------------------------- actions
\* lines 84-89: create the lock promise and install it
Acquire(c, userId, points) ==
    /\ activeLocks' = MapSet(activeLocks, LockKey(userId), c)
    /\ csCount' = csCount + 1
    /\ calls' = [calls EXCEPT ![c] =
                    [@ EXCEPT !.pc = "locked", !.userId = userId,
                              !.points = points, !.seq = csCount + 1]]
    /\ running' = c

\* redeemPoints up to the point where the lock is installed: the call
\* itself, and the continuation of the await when a lock was found
redeemPointsOf(c, requests) ==
    /\ Scheduled(c)
    /\ IF calls[c].pc = "idle"
       THEN /\ \A d \in 1..(c - 1) : calls[d].pc # "idle"
            /\ \E request \in requests :
                 LET userId == request[1]
                     points == request[2]
                     existingLock ==
                         MapGet(activeLocks, LockKey(userId), NoLock)
                 IN  IF existingLock # NoLock
                     THEN /\ calls' = [calls EXCEPT ![c] =
                                [@ EXCEPT !.pc = "await",
                                          !.userId = userId,
                                          !.points = points,
                                          !.existingLock = existingLock]]
                          /\ running' = IF running = c THEN 0 ELSE running
                          /\ UNCHANGED << activeLocks, csCount >>
                     ELSE Acquire(c, userId, points)
       ELSE /\ calls[c].pc = "await"
            /\ calls[c].existingLock \in resolved
            /\ Acquire(c, calls[c].userId, calls[c].points)
    /\ UNCHANGED << ordersByUser, redemptionsByUser, resolved, now,
                    calcResult >>

redeemPoints(c) == redeemPointsOf(c, Requests)

\* the record saved ahead of the balance check
ValidateAfterSave(c) ==
    /\ Scheduled(c)
    /\ calls[c].pc = "locked"
    /\ LET v == Validation(calls[c].userId, calls[c].points)
       IN  /\ calls' = [calls EXCEPT ![c] =
                [@ EXCEPT !.pc = IF v.error.kind = "none"
                                 THEN "validated" ELSE "finally",
                          !.balance = v.balance,
                          !.repoAccess = v.repoAccess,
                          !.error = v.error]]
           /\ redemptionsByUser' =
                 IF v.repoAccess = 3
                 THEN save(Redemption(Uuid(c), calls[c].userId,
                                      calls[c].points, now))
                 ELSE redemptionsByUser
    /\ UNCHANGED << ordersByUser, activeLocks, resolved, running, now,
                    csCount, calcResult >>

\* executeRedemption lines 107-125: the three checks
Validate(c) ==
    /\ Scheduled(c)
    /\ calls[c].pc = "locked"
    /\ LET v == Validation(calls[c].userId, calls[c].points)
       IN  calls' = [calls EXCEPT ![c] =
                [@ EXCEPT !.pc = IF v.error.kind = "none"
                                 THEN "validated" ELSE "finally",
                          !.balance = v.balance,
                          !.repoAccess = v.repoAccess,
                          !.error = v.error]]
    /\ UNCHANGED << ordersByUser, redemptionsByUser, activeLocks, resolved,
                    running, now, csCount, calcResult >>

\* executeRedemption lines 127-148: build the record, save it, respond
Save(c) ==
    /\ Scheduled(c)
    /\ calls[c].pc = "validated"
    /\ LET redemption == Redemption(Uuid(c), calls[c].userId,
                                    calls[c].points, now)
       IN  /\ redemptionsByUser' = save(redemption)
           /\ calls' = [calls EXCEPT ![c] =
                [@ EXCEPT !.pc = "finally",
                          !.repoAccess = @ + 1,
                          !.response =
                             [redemptionId |-> redemption.redemptionId,
                              userId |-> redemption.userId,
                              points |-> redemption.points,
                              timestamp |->
                                 ToISOString(redemption.timestamp),
                              newBalance |->
                                 NewBalance(calls[c].balance,
                                            calls[c].points)]]]
    /\ UNCHANGED << ordersByUser, activeLocks, resolved, running, now,
                    csCount, calcResult >>

\* the lock released after the return only, not after a throw
ReleaseOnSuccessOnly(c) ==
    /\ Scheduled(c)
    /\ calls[c].pc = "finally"
    /\ IF calls[c].error.kind = "none"
       THEN /\ resolved' = resolved \cup {c}
            /\ activeLocks' =
                   MapDelete(activeLocks, LockKey(calls[c].userId))
       ELSE UNCHANGED << resolved, activeLocks >>
    /\ calls' = [calls EXCEPT ![c].pc = "done"]
    /\ running' = 0
    /\ UNCHANGED << ordersByUser, redemptionsByUser, now, csCount,
                    calcResult >>

\* lines 94-97: the finally block, on the return and on every throw
Finally(c) ==
    /\ Scheduled(c)
    /\ calls[c].pc = "finally"
    /\ resolved' = resolved \cup {c}
    /\ activeLocks' = MapDelete(activeLocks, LockKey(calls[c].userId))
    /\ calls' = [calls EXCEPT ![c].pc = "done"]
    /\ running' = 0
    /\ UNCHANGED << ordersByUser, redemptionsByUser, now, csCount,
                    calcResult >>

\* the page cut out with splice instead of slice: the newest record leaves
\* the stored array
getRedemptionHistorySplice(userId) ==
    /\ running = 0
    /\ userExists(userId)
    /\ userId \in DOMAIN redemptionsByUser
    /\ redemptionsByUser' =
           [redemptionsByUser EXCEPT
               ![userId] =
                   LET sorted == SortDesc(redemptionsByUser[userId], << >>)
                   IN  IF sorted = << >> THEN sorted ELSE Tail(sorted)]
    /\ UNCHANGED << ordersByUser, activeLocks, resolved, calls, running,
                    now, csCount, calcResult >>

\* the read takes the user's lock and leaves it installed
getRedemptionHistoryLocking(userId) ==
    /\ running = 0
    /\ userExists(userId)
    /\ userId \in DOMAIN redemptionsByUser
    /\ redemptionsByUser' =
           [redemptionsByUser EXCEPT
               ![userId] = SortDesc(redemptionsByUser[userId], << >>)]
    /\ activeLocks' = MapSet(activeLocks, LockKey(userId), MaxCalls)
    /\ UNCHANGED << ordersByUser, resolved, calls, running, now, csCount,
                    calcResult >>

\* getRedemptionHistory: sorts the array that findByUserId hands out, which
\* is the stored array whenever the user has an entry
getRedemptionHistory(userId) ==
    /\ running = 0
    /\ userExists(userId)
    /\ userId \in DOMAIN redemptionsByUser
    /\ redemptionsByUser' =
           [redemptionsByUser EXCEPT
               ![userId] = SortDesc(redemptionsByUser[userId], << >>)]
    /\ UNCHANGED << ordersByUser, activeLocks, resolved, calls, running,
                    now, csCount, calcResult >>

\* what getRedemptionHistory returns: the NotFoundException, or the sorted
\* records mapped to their response form
RedemptionHistoryResponse(userId) ==
    IF ~userExists(userId)
    THEN [error |-> "UserNotFound"]
    ELSE LET sortedRedemptions == SortDesc(findByUserId(userId), << >>)
         IN  [error |-> "none",
              userId |-> userId,
              redemptions |->
                 [i \in DOMAIN sortedRedemptions |->
                     [redemptionId |-> sortedRedemptions[i].redemptionId,
                      userId |-> sortedRedemptions[i].userId,
                      points |-> sortedRedemptions[i].points,
                      timestamp |->
                         ToISOString(sortedRedemptions[i].timestamp)]]]

\* the query strings sent with GET /loyalty/:userId/redemptions
HistoryQueries == [limit : {-1, 0, 1, 50}, offset : {-1, 0, 1}]

\* LoyaltyController.getRedemptionHistory binds the userId parameter only;
\* the query string of the request never reaches the service
ControllerGetRedemptionHistory(userId, query) ==
    RedemptionHistoryResponse(userId)

\* the wall clock advances between calls; only an instant that some
\* redemption carries is left behind, an unused instant being the same as
\* the next one
Tick ==
    /\ running = 0
    /\ now < MaxNow
    /\ \E u \in DOMAIN redemptionsByUser :
          \E i \in DOMAIN redemptionsByUser[u] :
             redemptionsByUser[u][i].timestamp = now
    /\ now' = now + 1
    /\ UNCHANGED << ordersByUser, redemptionsByUser, activeLocks, resolved,
                    calls, running, csCount, calcResult >>

Init ==
    /\ ordersByUser = SeedOrders
    /\ redemptionsByUser = SeedRedemptions
    /\ activeLocks = << >>
    /\ resolved = {}
    /\ calls = [c \in CallIds |-> NewCall]
    /\ running = 0
    /\ now = SeedNow
    /\ csCount = 0
    /\ calcResult = NoCalc

Next ==
    \/ \E c \in CallIds : redeemPoints(c)
    \/ \E c \in CallIds : Validate(c)
    \/ \E c \in CallIds : Save(c)
    \/ \E c \in CallIds : Finally(c)
    \/ \E userId \in UserIds : getRedemptionHistory(userId)
    \/ Tick

Spec == Init /\ [][Next]_vars

\* ------------------------------------------- the calculator on any store
\* calculateBalance is public; here it is applied to order lists and
\* redemption lists of every content up to MaxLen entries.
Statuses == {"active", "cancelled", "refunded"}

CalcUserIds == {"dave", "zed"}

OrderChoices ==
    {Order("ord-d1", "dave", p, s) : p \in {50, 100}, s \in Statuses}

RedemptionChoices ==
    {Redemption(<<"red-d1", 0>>, "dave", p, 1) : p \in {25, 200}}

ListsOf(S) == UNION {[1..n -> S] : n \in 0..MaxLen}

calculateBalanceCall(userId) ==
    /\ calcResult' =
          LET b == calculateBalance(userId)
          IN  [userId |-> userId, earnedPoints |-> b.earnedPoints,
               redeemedPoints |-> b.redeemedPoints, balance |-> b.balance]
    /\ UNCHANGED << ordersByUser, redemptionsByUser, activeLocks, resolved,
                    calls, running, now, csCount >>

InitCalc ==
    /\ ordersByUser \in [{"dave"} -> ListsOf(OrderChoices)]
    /\ redemptionsByUser \in [{"dave"} -> ListsOf(RedemptionChoices)]
    /\ activeLocks = << >>
    /\ resolved = {}
    /\ calls = [c \in CallIds |-> NewCall]
    /\ running = 0
    /\ now = SeedNow
    /\ csCount = 0
    /\ calcResult = NoCalc

NextCalc == \E userId \in CalcUserIds : calculateBalanceCall(userId)

SpecCalc == InitCalc /\ [][NextCalc]_vars

\* --------------------------------------------------- amounts with fractions
\* points is a JavaScript number.  Here every amount, stored or requested,
\* is counted in halves of a point, so that 1 stands for 0.5 and 200 for
\* 100; the comparisons and sums of the code are the same on halves.
HalfUnit == 2

InHalves(records) ==
    [i \in DOMAIN records |-> [records[i] EXCEPT !.points = HalfUnit * @]]

\* 0.5 and 1.5 for alice (balance 200), 100 for alice, 200.5 for dave
\* (balance 200), 0.5 for the unknown zed
HalfRequests ==
    { << "alice", 1 >>, << "alice", 3 >>, << "alice", 200 >>,
      << "dave", 401 >>, << "zed", 1 >> }

redeemPointsHalf(c) == redeemPointsOf(c, HalfRequests)

InitHalf ==
    /\ ordersByUser = [u \in DOMAIN SeedOrders |-> InHalves(SeedOrders[u])]
    /\ redemptionsByUser =
          [u \in DOMAIN SeedRedemptions |-> InHalves(SeedRedemptions[u])]
    /\ activeLocks = << >>
    /\ resolved = {}
    /\ calls = [c \in CallIds |-> NewCall]
    /\ running = 0
    /\ now = SeedNow
    /\ csCount = 0
    /\ calcResult = NoCalc

NextHalf ==
    \/ \E c \in CallIds : redeemPointsHalf(c)
    \/ \E c \in CallIds : Validate(c)
    \/ \E c \in CallIds : Save(c)
    \/ \E c \in CallIds : Finally(c)

SpecHalf == InitHalf /\ [][NextHalf]_vars

\* ------------------------------------------- order statuses that change
\* The order system outside the service cancels or refunds an order that
\* the service has already seen; the Order objects of the index are the
\* ones it holds.  A change arrives between two calls, never inside the
\* synchronous body of one.
TransitionOrders == {"ord-a1", "ord-a2", "ord-d1"}

\* alice (balance 200) asks for 100 and for 200, dave (balance 200) for 200
StatusRequests == { << "alice", 100 >>, << "alice", 200 >>, << "dave", 200 >> }

OrderStatusTransition(userId, i, status) ==
    /\ running = 0
    /\ userId \in DOMAIN ordersByUser
    /\ i \in DOMAIN ordersByUser[userId]
    /\ ordersByUser[userId][i].orderId \in TransitionOrders
    /\ ordersByUser[userId][i].status = "active"
    /\ status \in {"cancelled", "refunded"}
    /\ ordersByUser' = [ordersByUser EXCEPT ![userId][i].status = status]
    /\ UNCHANGED << redemptionsByUser, activeLocks, resolved, calls, running,
                    now, csCount, calcResult >>

redeemPointsStatus(c) == redeemPointsOf(c, StatusRequests)

NextStatus ==
    \/ \E c \in CallIds : redeemPointsStatus(c)
    \/ \E c \in CallIds : Validate(c)
    \/ \E c \in CallIds : Save(c)
    \/ \E c \in CallIds : Finally(c)
    \/ \E userId \in {"alice", "dave"} : \E i \in 1..3 :
          \E status \in Statuses : OrderStatusTransition(userId, i, status)

SpecStatus == Init /\ [][NextStatus]_vars

\* ------------------------------------------------------ calls that run on
\* The event loop runs a synchronous body to its end once it has begun,
\* and runs the continuation of an await once the awaited promise is
\* settled.  When a call is made is up to the callers.
\* alice (balance 200) asks for 0, for 100 and for 200, the unknown zed
\* for 100
FairRequests ==
    { << "alice", 0 >>, << "alice", 100 >>, << "alice", 200 >>,
      << "zed", 100 >> }

redeemPointsFair(c) == redeemPointsOf(c, FairRequests)

\* the continuation of the await on existingLock
Resume(c) == calls[c].pc = "await" /\ redeemPointsFair(c)

NextFair ==
    \/ \E c \in CallIds : redeemPointsFair(c)
    \/ \E c \in CallIds : Validate(c)
    \/ \E c \in CallIds : Save(c)
    \/ \E c \in CallIds : Finally(c)

Fairness ==
    \A c \in CallIds :
        /\ WF_vars(Resume(c))
        /\ WF_vars(Validate(c))
        /\ WF_vars(Save(c))
        /\ WF_vars(Finally(c))

SpecFair == Init /\ [][NextFair]_vars /\ Fairness

\* --------------------------------------------------- a store that fails
\* RedemptionRepository.save on a medium that cannot take the write: it
\* throws and stores nothing.  executeRedemption and redeemPoints have no
\* catch, so the throw leaves through the finally block.
\* alice (balance 200) asks for 100 and for 200, dave (balance 200) for 200
StoreRequests == { << "alice", 100 >>, << "alice", 200 >>, << "dave", 200 >> }

redeemPointsStore(c) == redeemPointsOf(c, StoreRequests)

SaveThrows(c) ==
    /\ Scheduled(c)
    /\ calls[c].pc = "validated"
    /\ calls' = [calls EXCEPT ![c] =
            [@ EXCEPT !.pc = "finally",
                      !.repoAccess = @ + 1,
                      !.error = [kind |-> "StoreUnavailable",
                                 available |-> 0, requested |-> 0]]]
    /\ UNCHANGED << ordersByUser, redemptionsByUser, activeLocks, resolved,
                    running, now, csCount, calcResult >>

NextStore ==
    \/ \E c \in CallIds : redeemPointsStore(c)
    \/ \E c \in CallIds : Validate(c)
    \/ \E c \in CallIds : Save(c)
    \/ \E c \in CallIds : SaveThrows(c)
    \/ \E c \in CallIds : Finally(c)

SpecStore == Init /\ [][NextStore]_vars

\* ============================================================ properties
\* Reference sums, over index sets rather than by folding the list.
RECURSIVE SumPointsAt(_, _)
SumPointsAt(s, I) ==
    IF I = {} THEN 0
    ELSE LET i == CHOOSE j \in I : TRUE
         IN  s[i].points + SumPointsAt(s, I \ {i})

ActiveOrderPoints(orders) ==
    SumPointsAt(orders, {i \in DOMAIN orders : orders[i].status = "active"})

AllPoints(s) == SumPointsAt(s, DOMAIN s)

AllUsers == UserIds \cup DOMAIN SeedOrders \cup CalcUserIds

\* the balance of the seeded store
InitialBalance(u) ==
    ActiveOrderPoints(MapGet(SeedOrders, u, << >>))
        - AllPoints(MapGet(SeedRedemptions, u, << >>))

Launched(c) == calls[c].pc # "idle"

\* the call has left executeRedemption, by return or by throw
Finished(c) == calls[c].pc \in {"finally", "done"}

Succeeded(c) == Finished(c) /\ calls[c].error.kind = "none"

Rejected(c) == Finished(c) /\ calls[c].error.kind # "none"

\* between the read of the balance and the save
InCritical(c) == calls[c].pc = "validated"

RECURSIVE SumCallPoints(_)
SumCallPoints(S) ==
    IF S = {} THEN 0
    ELSE LET c == CHOOSE d \in S : TRUE
         IN  calls[c].points + SumCallPoints(S \ {c})

\* the calls for u that succeeded and installed their lock before place n
AcceptedBefore(u, n) ==
    {d \in CallIds : Succeeded(d) /\ calls[d].userId = u /\ calls[d].seq < n}

\* what the successful calls before place n have left of u's balance
BalanceLeft(u, n) == InitialBalance(u) - SumCallPoints(AcceptedBefore(u, n))

Stored(u) == {findByUserId(u)[i] : i \in DOMAIN findByUserId(u)}

\* C1: with the order statuses fixed, in every state reached by redeemPoints
\* calls from the seeded store, every user's computed balance is at least 0
\* and equals the points of the active orders minus the redeemed points.
C1_BalanceInvariant ==
    \A u \in AllUsers :
        LET b == calculateBalance(u)
        IN  /\ b.balance >= 0
            /\ b.earnedPoints = ActiveOrderPoints(OrderFindByUserId(u))
            /\ b.balance = ActiveOrderPoints(OrderFindByUserId(u))
                              - AllPoints(findByUserId(u))

\* a user for whom one call was accepted and a later one rejected
C1_Witness ==
    \E c, d \in CallIds :
        /\ calls[c].userId = calls[d].userId
        /\ calls[c].pc = "done" /\ Succeeded(c)
        /\ calls[d].pc = "done" /\ Rejected(d)
        /\ calls[c].seq < calls[d].seq
        /\ calculateBalance(calls[c].userId).balance
              < InitialBalance(calls[c].userId)

\* C2: the calls for one user take effect in one order (the order in which
\* they installed their lock); a call with a positive amount for a known
\* user succeeds exactly when its amount fits in what the successful calls
\* before it left, it fails with InsufficientPoints otherwise, and the
\* amounts of the successful calls never add up to more than the initial
\* balance.
C2_NoOverdraft ==
    /\ \A c, d \in CallIds :
          (c # d /\ calls[c].seq > 0 /\ calls[d].seq > 0)
              => calls[c].seq # calls[d].seq
    /\ \A c \in CallIds :
          (Finished(c) /\ calls[c].points > 0 /\ userExists(calls[c].userId))
              => LET left == BalanceLeft(calls[c].userId, calls[c].seq)
                 IN  /\ Succeeded(c) <=> calls[c].points <= left
                     /\ ~Succeeded(c)
                           => calls[c].error.kind = "InsufficientPoints"
    /\ \A u \in AllUsers :
          SumCallPoints({c \in CallIds : Succeeded(c) /\ calls[c].userId = u})
              <= InitialBalance(u)

\* three calls for one user that ask for more than the balance: the first
\* and the third fit, the second does not
C2_Witness ==
    /\ MaxCalls >= 3
    /\ \A c \in 1..3 : calls[c].pc = "done" /\ calls[c].userId = calls[1].userId
    /\ calls[1].points + calls[2].points + calls[3].points
          > InitialBalance(calls[1].userId)
    /\ Succeeded(1) /\ Succeeded(3)
    /\ calls[2].error.kind = "InsufficientPoints"

\* C3: for every user at most one call is between its read of the balance
\* and its save.
C3_OneInCritical ==
    \A u \in AllUsers :
        Cardinality({c \in CallIds :
                        InCritical(c) /\ calls[c].userId = u}) <= 1

\* a third call for a user is between read and save, two calls for the same
\* user being over
C3_Witness ==
    \E c \in CallIds :
        /\ InCritical(c)
        /\ Cardinality({d \in CallIds :
                           /\ d # c
                           /\ calls[d].userId = calls[c].userId
                           /\ calls[d].pc = "done"}) >= 2

\* C4: when call B has read the balance, every call A for the same user
\* that installed its lock before B is over, the redemption of a successful
\* A is stored, and the balance B read is the initial balance minus the
\* amounts of all those successful calls.
C4_EarlierVisible ==
    \A b \in CallIds :
        (calls[b].repoAccess >= 3)
            => /\ \A a \in CallIds :
                    (/\ a # b
                     /\ calls[a].userId = calls[b].userId
                     /\ calls[a].seq > 0
                     /\ calls[a].seq < calls[b].seq)
                        => /\ calls[a].pc = "done"
                           /\ Succeeded(a) =>
                                \E r \in Stored(calls[a].userId) :
                                    /\ r.redemptionId = Uuid(a)
                                    /\ r.points = calls[a].points
               /\ calls[b].balance = BalanceLeft(calls[b].userId, calls[b].seq)

\* B has read a balance that an earlier successful A had lowered
C4_Witness ==
    \E a, b \in CallIds :
        /\ calls[a].userId = calls[b].userId
        /\ Succeeded(a)
        /\ calls[a].seq < calls[b].seq
        /\ InCritical(b)
        /\ calls[b].balance = InitialBalance(calls[b].userId) - calls[a].points
        /\ calls[a].points > 0

\* C5, the save step of a successful call: the newBalance it returns is the
\* balance computed before it minus the amount, and a getBalance right
\* after it shows that balance, the redeemed points raised by the amount
\* and the earned points as before.
C5_SaveStep ==
    \A c \in CallIds :
        (calls[c].pc = "validated" /\ calls'[c].pc = "finally")
            => LET u == calls[c].userId
                   p == calls[c].points
                   before == calculateBalance(u)
                   after == getBalance(u)'
                   returned == calls'[c].response
               IN  /\ returned.newBalance = before.balance - p
                   /\ after.error = "none"
                   /\ after.balance = returned.newBalance
                   /\ after.redeemedPoints = before.redeemedPoints + p
                   /\ after.earnedPoints = before.earnedPoints

\* C5, after the return: the redemption is stored, and as long as no later
\* call for the user succeeded, getBalance shows the returned newBalance.
C5_AfterReturn ==
    \A c \in CallIds :
        (calls[c].pc = "done" /\ Succeeded(c))
            => LET u == calls[c].userId
               IN  /\ \E r \in Stored(u) :
                         /\ r.redemptionId = calls[c].response.redemptionId
                         /\ r.points = calls[c].points
                   /\ (\A d \in CallIds :
                          (Succeeded(d) /\ calls[d].userId = u)
                              => calls[d].seq <= calls[c].seq)
                         => getBalance(u).balance
                               = calls[c].response.newBalance

\* C5: a successful redeemPoints(u, p) returns newBalance = the balance
\* before it minus p, its redemption is stored when it returns, and a
\* getBalance(u) after it, with no write in between, returns that
\* newBalance, redeemedPoints raised by exactly p and the same earnedPoints.
C5_RedeemPostcondition == [][C5_SaveStep]_vars /\ []C5_AfterReturn

\* alice (balance 200) redeemed 100 and getBalance shows 100
C5_Witness ==
    \E c \in CallIds :
        /\ calls[c].pc = "done" /\ Succeeded(c)
        /\ calls[c].userId = "alice" /\ calls[c].points = 100
        /\ calls[c].response.newBalance = 100
        /\ getBalance("alice").balance = 100
        /\ getBalance("alice").redeemedPoints = 200

\* C6: once a redeemPoints call is over, however it ended, its lock
\* promise is resolved and activeLocks holds no lock that it installed.
C6_LockReleased ==
    \A c \in CallIds :
        calls[c].pc = "done"
            => /\ c \in resolved
               /\ \A k \in DOMAIN activeLocks : activeLocks[k] # c

\* calls are over on each of the three error paths of the code
C6_Witness ==
    /\ \A kind \in {"InvalidAmount", "UserNotFound", "InsufficientPoints"} :
          \E c \in CallIds :
              calls[c].pc = "done" /\ calls[c].error.kind = kind
    /\ activeLocks = << >>

\* C7: every lock is filed under the userId of the call that installed it,
\* and a call that was made to wait was made to wait by a lock of a call
\* for its own user; a call for u never waits on a lock of a call for v.
C7_PerUserLock ==
    /\ \A k \in DOMAIN activeLocks : calls[activeLocks[k]].userId = k
    /\ \A c \in CallIds :
          calls[c].existingLock # NoLock
              => calls[calls[c].existingLock].userId = calls[c].userId

\* a call holds the lock of its user, the only lock there is, after a call
\* for another user went through its balance check without waiting
C7_Witness ==
    \E c, d \in CallIds :
        /\ InCritical(c)
        /\ DOMAIN activeLocks = {calls[c].userId}
        /\ calls[d].pc = "done"
        /\ calls[d].error.kind = "InsufficientPoints"
        /\ calls[d].userId # calls[c].userId
        /\ calls[d].existingLock = NoLock

\* C8 (checked under SpecCalc): for every content of the store,
\* calculateBalance returns the sum of the points of the active orders
\* (cancelled and refunded ones left out) as earnedPoints, the sum of the
\* points of all redemptions as redeemedPoints, and their difference,
\* unclamped, as balance.
C8_CalculateBalance ==
    calcResult.userId # ""
        => LET orders == OrderFindByUserId(calcResult.userId)
               counted == {i \in DOMAIN orders :
                              orders[i].status \notin
                                  {"cancelled", "refunded"}}
           IN  /\ calcResult.earnedPoints = SumPointsAt(orders, counted)
               /\ calcResult.earnedPoints = ActiveOrderPoints(orders)
               /\ calcResult.redeemedPoints
                     = AllPoints(findByUserId(calcResult.userId))
               /\ calcResult.balance
                     = ActiveOrderPoints(orders)
                          - AllPoints(findByUserId(calcResult.userId))

\* an active and a refunded order, and redemptions beyond the earned
\* points: the balance comes out negative
C8_Witness ==
    /\ calcResult.userId = "dave"
    /\ \E i, j \in DOMAIN ordersByUser["dave"] :
          /\ ordersByUser["dave"][i].status = "active"
          /\ ordersByUser["dave"][j].status = "refunded"
    /\ calcResult.earnedPoints > 0
    /\ calcResult.balance < 0

\* C9: a call for a known user with a positive amount that exceeds the
\* balance at that moment fails with InsufficientPoints, available being
\* that balance and requested the amount.
C9_InsufficientPoints ==
    \A c \in CallIds :
        (/\ Finished(c)
         /\ calls[c].points > 0
         /\ userExists(calls[c].userId)
         /\ calls[c].points > BalanceLeft(calls[c].userId, calls[c].seq))
            => calls[c].error =
                  [kind |-> "InsufficientPoints",
                   available |-> BalanceLeft(calls[c].userId, calls[c].seq),
                   requested |-> calls[c].points]

\* charlie, whose balance is 0, asks for 1
C9_Witness ==
    \E c \in CallIds :
        /\ calls[c].pc = "done"
        /\ calls[c].userId = "charlie"
        /\ calls[c].error =
              [kind |-> "InsufficientPoints", available |-> 0,
               requested |-> 1]

IsWhole(p) == p % HalfUnit = 0

\* C11 (checked under SpecHalf): a call with a positive amount that is not
\* a whole number fails with InvalidAmount and stores nothing, so every
\* stored redemption has a whole number of points.
C11_NonIntegerRejected ==
    /\ \A c \in CallIds :
          (Finished(c) /\ calls[c].points > 0 /\ ~IsWhole(calls[c].points))
              => /\ calls[c].error.kind = "InvalidAmount"
                 /\ calls[c].response = NoResponse
    /\ \A u \in AllUsers : \A r \in Stored(u) : IsWhole(r.points)

\* C12: for a userId without an entry in the order index, getBalance and
\* getRedemptionHistory fail with UserNotFound, and so does redeemPoints
\* with a positive amount.
C12_UserNotFound ==
    /\ \A u \in AllUsers :
          u \notin DOMAIN ordersByUser
              => /\ getBalance(u) = [error |-> "UserNotFound"]
                 /\ RedemptionHistoryResponse(u) = [error |-> "UserNotFound"]
    /\ \A c \in CallIds :
          (/\ Finished(c)
           /\ calls[c].points > 0
           /\ calls[c].userId \notin DOMAIN ordersByUser)
              => /\ calls[c].error.kind = "UserNotFound"
                 /\ calls[c].response = NoResponse

\* zed asked for 100 and was turned away
C12_Witness ==
    \E c \in CallIds :
        /\ calls[c].pc = "done"
        /\ calls[c].userId = "zed" /\ calls[c].points = 100
        /\ calls[c].error.kind = "UserNotFound"
        /\ getBalance("zed").error = "UserNotFound"

\* C13: a call for a known user that asks for exactly the balance left,
\* this being positive, succeeds and returns newBalance 0.
C13_ExactBalance ==
    \A c \in CallIds :
        (/\ Finished(c)
         /\ calls[c].userId \in DOMAIN ordersByUser
         /\ calls[c].points > 0
         /\ calls[c].points = BalanceLeft(calls[c].userId, calls[c].seq))
            => /\ Succeeded(c)
               /\ calls[c].response.newBalance = 0
               /\ calls[c].response.points = calls[c].points

\* dave redeemed his whole balance of 200
C13_Witness ==
    \E c \in CallIds :
        /\ calls[c].pc = "done" /\ Succeeded(c)
        /\ calls[c].userId = "dave" /\ calls[c].points = 200
        /\ InitialBalance("dave") = 200
        /\ calls[c].response.newBalance = 0
        /\ calculateBalance("dave").balance = 0

\* the calls made for u so far
CallsFor(u) == {c \in CallIds : Launched(c) /\ calls[c].userId = u}

\* C14: when the calls made for a user are two or more, all with positive
\* amounts that add up to at most the initial balance, then once they are
\* over all of them have succeeded and the balance is the initial balance
\* minus the sum of the amounts.
C14_AllFit ==
    \A u \in AllUsers :
        (/\ Cardinality(CallsFor(u)) >= 2
         /\ \A c \in CallsFor(u) : calls[c].pc = "done" /\ calls[c].points > 0
         /\ u \in DOMAIN ordersByUser
         /\ SumCallPoints(CallsFor(u)) <= InitialBalance(u))
            => /\ \A c \in CallsFor(u) : Succeeded(c)
               /\ calculateBalance(u).balance
                     = InitialBalance(u) - SumCallPoints(CallsFor(u))

\* alice (balance 200) redeemed 100 twice
C14_Witness ==
    /\ Cardinality(CallsFor("alice")) = 2
    /\ \A c \in CallsFor("alice") :
          calls[c].pc = "done" /\ Succeeded(c) /\ calls[c].points = 100
    /\ calculateBalance("alice").balance = 0

\* C15: the same request (userId and points) submitted again records no
\* second redemption and deducts nothing more: of the calls that carry one
\* request at most one succeeds, and the balance has gone down by its
\* amount once.
C15_IdempotentRetry ==
    \A c, d \in CallIds :
        (/\ c # d
         /\ Finished(c) /\ Finished(d)
         /\ calls[c].userId = calls[d].userId
         /\ calls[c].points = calls[d].points)
            => ~(Succeeded(c) /\ Succeeded(d))

\* C16, one step: every redemption stored for a user before the step is
\* stored for that user after it, with the same redemptionId, points and
\* timestamp.
C16_Step ==
    \A u \in AllUsers :
        \A r \in Stored(u) :
            \E r2 \in {findByUserId(u)'[i] : i \in DOMAIN findByUserId(u)'} :
                r2 = r

\* C16: a stored redemption is never changed and never removed; each
\* user's set of redemptions only grows.
C16_AppendOnly == [][C16_Step]_vars

\* alice's seeded redemption is still stored, after a new one was appended
\* and a history call has put the new one in front of it
C16_Witness ==
    /\ Len(findByUserId("alice")) = 2
    /\ findByUserId("alice")[2] = SeedRedemptions["alice"][1]
    /\ findByUserId("alice")[1].redemptionId[1] = "uuid"

\* C17: a getRedemptionHistory call leaves the order store, the redemption
\* store, stored order included, and the lock map as they were.
C17_HistoryReadOnly ==
    [][\A u \in UserIds :
          getRedemptionHistory(u)
              => UNCHANGED << ordersByUser, redemptionsByUser, activeLocks >>
      ]_vars

\* a stored record in the form the history response gives it
AsResponse(r) ==
    [redemptionId |-> r.redemptionId, userId |-> r.userId,
     points |-> r.points, timestamp |-> [iso |-> r.timestamp]]

\* C18: for a known user getRedemptionHistory returns the stored
\* redemptions of that user, all of them and no other, each timestamp
\* being at least the one after it; a user without redemptions gets the
\* empty list.
C18_HistoryNewestFirst ==
    \A u \in AllUsers :
        u \in DOMAIN ordersByUser
            => LET response == RedemptionHistoryResponse(u)
                   list == response.redemptions
               IN  /\ response.error = "none"
                   /\ response.userId = u
                   /\ Len(list) = Len(findByUserId(u))
                   /\ {list[i] : i \in DOMAIN list}
                         = {AsResponse(r) : r \in Stored(u)}
                   /\ \A i \in 1..(Len(list) - 1) :
                         list[i].timestamp.iso >= list[i + 1].timestamp.iso
                   /\ findByUserId(u) = << >> => list = << >>

\* alice's new redemption is stored behind the seeded one and returned in
\* front of it; bob, without redemptions, gets the empty list
C18_Witness ==
    /\ Len(findByUserId("alice")) = 2
    /\ findByUserId("alice")[1] = SeedRedemptions["alice"][1]
    /\ RedemptionHistoryResponse("alice").redemptions[2].redemptionId
          = << "red-a1", 0 >>
    /\ RedemptionHistoryResponse("alice").redemptions[1].timestamp.iso
          > RedemptionHistoryResponse("alice").redemptions[2].timestamp.iso
    /\ RedemptionHistoryResponse("bob").redemptions = << >>

\* the place of call c's redemption in the history of its user
PlaceInHistory(c) ==
    LET list == RedemptionHistoryResponse(calls[c].userId).redemptions
    IN  CHOOSE i \in DOMAIN list : list[i].redemptionId = Uuid(c)

\* C19: of two redemptions of one user with equal timestamps the one
\* appended later comes first in the history, whatever history calls and
\* appends came before.
C19_TieLatestFirst ==
    \A c, d \in CallIds :
        (/\ calls[c].pc = "done" /\ calls[d].pc = "done"
         /\ Succeeded(c) /\ Succeeded(d)
         /\ calls[c].userId = calls[d].userId
         /\ calls[c].seq < calls[d].seq
         /\ calls[c].response.timestamp = calls[d].response.timestamp)
            => PlaceInHistory(d) < PlaceInHistory(c)

\* C20: the history response carries total = the number of the user's
\* redemptions, and limit and offset, 50 and 0 when none were given, the
\* list being the slice [offset, offset + limit) of the newest-first
\* sequence.
C20_Pagination ==
    \A u \in AllUsers :
        u \in DOMAIN ordersByUser
            => LET response == RedemptionHistoryResponse(u)
               IN  /\ {"total", "limit", "offset"} \subseteq DOMAIN response
                   /\ response.total = Len(findByUserId(u))
                   /\ response.limit = 50
                   /\ response.offset = 0
                   /\ Len(response.redemptions) <= response.limit

\* C21: a history request with limit < 1 or offset < 0 fails with
\* InvalidPagination and returns no redemptions.
C21_InvalidPagination ==
    \A u \in AllUsers : \A query \in HistoryQueries :
        (u \in DOMAIN ordersByUser /\ (query.limit < 1 \/ query.offset < 0))
            => LET response == ControllerGetRedemptionHistory(u, query)
               IN  /\ response.error = "InvalidPagination"
                   /\ "redemptions" \notin DOMAIN response

\* C22 as stated: userExists(userId) is true exactly when the user has at
\* least one order, so that a userId registered with an empty order list
\* does not exist.
C22_ExistsIffHasOrder ==
    \A u \in AllUsers :
        userExists(u) <=> Len(OrderFindByUserId(u)) >= 1

\* C22 as amended: userExists(userId) is true exactly for the userIds the
\* order index was seeded with, with or without orders; a user with an
\* order exists, a userId registered with an empty order list exists too,
\* and redeemPoints answers UserNotFound for the other userIds only.
C22_ExistsIffRegistered ==
    /\ \A u \in AllUsers :
          /\ userExists(u) <=> u \in DOMAIN SeedOrders
          /\ Len(OrderFindByUserId(u)) >= 1 => userExists(u)
          /\ (u \in DOMAIN SeedOrders /\ SeedOrders[u] = << >>)
                => userExists(u)
    /\ \A c \in CallIds :
          (Finished(c) /\ calls[c].points > 0)
              => (calls[c].error.kind = "UserNotFound"
                     <=> calls[c].userId \notin DOMAIN SeedOrders)

\* bob, registered without orders, and the unregistered zed have both asked
\* for 100: bob was found, zed was not
C22_Witness ==
    \E c, d \in CallIds :
        /\ calls[c].pc = "done" /\ calls[d].pc = "done"
        /\ calls[c].userId = "bob" /\ calls[c].points = 100
        /\ calls[d].userId = "zed" /\ calls[d].points = 100
        /\ calls[c].error.kind = "InsufficientPoints"
        /\ calls[d].error.kind = "UserNotFound"
        /\ userExists("bob") /\ ~userExists("zed")

\* C23: for a user known to the service with no orders and no redemptions
\* getBalance succeeds with balance 0, earnedPoints 0 and redeemedPoints 0,
\* and a redeemPoints call of a positive amount for that user fails with
\* InsufficientPoints.
C23_NoOrdersUser ==
    \A u \in AllUsers :
        (/\ u \in DOMAIN ordersByUser
         /\ ordersByUser[u] = << >>
         /\ findByUserId(u) = << >>)
            => /\ getBalance(u) =
                     [error |-> "none", userId |-> u, balance |-> 0,
                      earnedPoints |-> 0, redeemedPoints |-> 0]
               /\ \A c \in CallIds :
                     (/\ Finished(c)
                      /\ calls[c].userId = u
                      /\ calls[c].points > 0)
                        => calls[c].error =
                              [kind |-> "InsufficientPoints",
                               available |-> 0,
                               requested |-> calls[c].points]

\* bob asked for 100 and was refused for lack of points; his balance reads 0
C23_Witness ==
    \E c \in CallIds :
        /\ calls[c].pc = "done"
        /\ calls[c].userId = "bob" /\ calls[c].points = 100
        /\ calls[c].error.kind = "InsufficientPoints"
        /\ ordersByUser["bob"] = << >>
        /\ getBalance("bob").error = "none"
        /\ getBalance("bob").balance = 0

\* the step appends a redemption: the save of some call
IsSaveStep ==
    \E c \in CallIds : calls[c].pc = "validated" /\ calls'[c].pc = "finally"

\* C24, one step: a step that is no write (no redemption is appended, no
\* order changes) leaves the getBalance response of every user as it was,
\* the step of a getRedemptionHistory call included.
C24_Step ==
    (~IsSaveStep /\ ordersByUser' = ordersByUser)
        => \A u \in AllUsers : getBalance(u)' = getBalance(u)

C25_ReadStep ==
    \A u \in UserIds :
        getRedemptionHistory(u)
            => UNCHANGED << activeLocks, resolved, calls, running >>

\* C25, in every state, a lock being installed or not: the reads of a
\* known user answer, from the store as it is, and the redemption of every
\* call that has returned is in the history and in the redeemed points.
C25_ReadsSeeStore ==
    /\ \A u \in AllUsers :
          u \in DOMAIN ordersByUser
              => /\ getBalance(u).error = "none"
                 /\ getBalance(u).redeemedPoints = AllPoints(findByUserId(u))
                 /\ RedemptionHistoryResponse(u).error = "none"
                 /\ Len(RedemptionHistoryResponse(u).redemptions)
                       = Len(findByUserId(u))
    /\ \A c \in CallIds :
          Succeeded(c)
              => \E i \in DOMAIN
                        RedemptionHistoryResponse(calls[c].userId).redemptions :
                    LET r == RedemptionHistoryResponse(calls[c].userId)
                                .redemptions[i]
                    IN  /\ r.redemptionId = Uuid(c)
                        /\ r.points = calls[c].points

\* C25: getBalance and getRedemptionHistory never wait on a per-user lock
\* and never install one; they answer from the store contents of the
\* moment, so a read after a redeemPoints call has returned shows its
\* redemption.
C25_ReadsLockFree == [][C25_ReadStep]_vars /\ []C25_ReadsSeeStore

\* a call for alice holds her lock, between its balance check and its
\* save; the reads answer all the same and show the redemption of the call
\* for alice that returned before
C25_Witness ==
    \E c, d \in CallIds :
        /\ calls[c].pc = "done" /\ Succeeded(c)
        /\ calls[c].userId = "alice" /\ calls[d].userId = "alice"
        /\ InCritical(d)
        /\ "alice" \in DOMAIN activeLocks
        /\ getBalance("alice").balance = 200 - calls[c].points
        /\ Len(RedemptionHistoryResponse("alice").redemptions) = 2

\* C26 (checked under SpecStatus): the computed balance of every user is
\* at least 0 in every state, the states that follow a cancellation or a
\* refund of an order after redemptions were accepted included.
C26_NeverNegative ==
    \A u \in AllUsers : calculateBalance(u).balance >= 0

\* C27 (checked under SpecStatus): when the redeemed points of a known
\* user exceed the points of the active orders, getBalance does not answer
\* with a normal response.
C27_NegativeSurfaced ==
    \A u \in AllUsers :
        (/\ u \in DOMAIN ordersByUser
         /\ AllPoints(findByUserId(u))
               > ActiveOrderPoints(OrderFindByUserId(u)))
            => getBalance(u).error # "none"

\* C28, the step in which an active order is cancelled or refunded: the
\* next getBalance shows earnedPoints and balance lower by the points of
\* that order, and the same redeemedPoints.
C28_TransitionStep ==
    \A u \in DOMAIN ordersByUser : \A i \in DOMAIN ordersByUser[u] :
        (/\ ordersByUser[u][i].status = "active"
         /\ ordersByUser'[u][i].status \in {"cancelled", "refunded"})
            => LET before == getBalance(u)
                   after == getBalance(u)'
                   p == ordersByUser[u][i].points
               IN  /\ after.error = "none"
                   /\ after.earnedPoints = before.earnedPoints - p
                   /\ after.balance = before.balance - p
                   /\ after.redeemedPoints = before.redeemedPoints

\* C28, the balance check of a call: the balance it checks against is the
\* one the store gives at that moment, the active orders only.
C28_ValidateStep ==
    \A c \in CallIds :
        (/\ calls[c].pc = "locked" /\ calls'[c].pc # "locked"
         /\ calls[c].points > 0
         /\ calls[c].userId \in DOMAIN ordersByUser)
            => LET u == calls[c].userId
                   b == ActiveOrderPoints(ordersByUser[u])
                           - AllPoints(findByUserId(u))
               IN  /\ calls'[c].balance = b
                   /\ calls'[c].error.kind = "none" <=> calls[c].points <= b
                   /\ calls'[c].error.kind # "none"
                         => calls'[c].error =
                               [kind |-> "InsufficientPoints",
                                available |-> b,
                                requested |-> calls[c].points]

\* C28 (checked under SpecStatus): the balance is computed anew from the
\* store for every read; after an order went from active to cancelled or
\* refunded the next getBalance is lower by exactly its points and the
\* next redeemPoints is checked against the lowered balance.
C28_Recomputed == [][C28_TransitionStep /\ C28_ValidateStep]_vars

\* dave's only active order (200) was refunded, and a call of his for 200,
\* which the seeded balance would have covered, was refused with 0
\* available
C28_Witness ==
    \E c \in CallIds :
        /\ calls[c].pc = "done"
        /\ calls[c].userId = "dave" /\ calls[c].points = 200
        /\ InitialBalance("dave") = 200
        /\ ordersByUser["dave"][1].status = "refunded"
        /\ calls[c].error =
              [kind |-> "InsufficientPoints", available |-> 0,
               requested |-> 200]
        /\ getBalance("dave").earnedPoints = 0

\* C29, one step: a step of a call that changes the redemption store or
\* the order store is the save of a call that passed the three checks.
C29_Step ==
    \A c \in CallIds :
        (/\ calls'[c] # calls[c]
         /\ \/ redemptionsByUser' # redemptionsByUser
            \/ ordersByUser' # ordersByUser)
            => /\ calls[c].pc = "validated"
               /\ calls[c].error.kind = "none"
               /\ calls'[c].error.kind = "none"
               /\ ordersByUser' = ordersByUser

\* C29, after the call: a rejected call has returned nothing and no stored
\* redemption carries its id.
C29_NoTrace ==
    \A c \in CallIds :
        Rejected(c)
            => /\ calls[c].response = NoResponse
               /\ \A u \in AllUsers :
                     \A r \in Stored(u) : r.redemptionId # Uuid(c)

\* C29: a redeemPoints call that fails with InvalidAmount, UserNotFound or
\* InsufficientPoints leaves the redemption store and the order store as
\* they were before it.
C29_RejectedChangesNothing == [][C29_Step]_vars /\ []C29_NoTrace

\* three calls are over, one rejected for each of the three reasons, and
\* both stores are the seeded ones
C29_Witness ==
    /\ \A kind \in {"InvalidAmount", "UserNotFound", "InsufficientPoints"} :
          \E c \in CallIds :
              calls[c].pc = "done" /\ calls[c].error.kind = kind
    /\ redemptionsByUser = SeedRedemptions
    /\ ordersByUser = SeedOrders

\* C30 (checked under SpecCalc): for a userId without an entry both
\* findByUserId methods hand out the empty list, and calculateBalance for
\* such a userId gives 0 earned, 0 redeemed and balance 0.
C30_EmptyForUnknown ==
    \A u \in AllUsers :
        /\ u \notin DOMAIN ordersByUser => OrderFindByUserId(u) = << >>
        /\ u \notin DOMAIN redemptionsByUser => findByUserId(u) = << >>
        /\ (/\ calcResult.userId = u
            /\ u \notin DOMAIN ordersByUser
            /\ u \notin DOMAIN redemptionsByUser)
              => calcResult =
                    [userId |-> u, earnedPoints |-> 0,
                     redeemedPoints |-> 0, balance |-> 0]

\* calculateBalance was called for zed while the store holds an active
\* order and a redemption of dave
C30_Witness ==
    /\ calcResult.userId = "zed"
    /\ calcResult.balance = 0
    /\ \E i \in DOMAIN ordersByUser["dave"] :
          ordersByUser["dave"][i].status = "active"
    /\ redemptionsByUser["dave"] # << >>

\* the redemptionIds stored, of every user
StoredIds ==
    UNION {{redemptionsByUser[u][i].redemptionId :
               i \in DOMAIN redemptionsByUser[u]} :
           u \in DOMAIN redemptionsByUser}

\* C31, the save step of a call: the user's stored sequence afterwards is
\* the one before with one record added at its end; the record has the
\* userId and the points of the call and a redemptionId that no stored
\* record had; the other users' sequences are as before; the response
\* repeats the record's redemptionId, userId and points.
C31_SaveStep ==
    \A c \in CallIds :
        (calls[c].pc = "validated" /\ calls'[c].pc = "finally")
            => LET u == calls[c].userId
                   before == findByUserId(u)
                   after == findByUserId(u)'
                   r == after[Len(after)]
               IN  /\ Len(after) = Len(before) + 1
                   /\ SubSeq(after, 1, Len(before)) = before
                   /\ r.userId = u
                   /\ r.points = calls[c].points
                   /\ r.redemptionId \notin StoredIds
                   /\ \A v \in DOMAIN redemptionsByUser \ {u} :
                         redemptionsByUser'[v] = redemptionsByUser[v]
                   /\ calls'[c].response.redemptionId = r.redemptionId
                   /\ calls'[c].response.userId = r.userId
                   /\ calls'[c].response.points = r.points

\* C31, after the call: exactly one stored record carries the redemptionId
\* that a successful call returned, and no two stored records share one.
C31_OneRecord ==
    /\ \A c \in CallIds :
          Succeeded(c)
              => Cardinality({i \in DOMAIN findByUserId(calls[c].userId) :
                     findByUserId(calls[c].userId)[i].redemptionId
                         = calls[c].response.redemptionId}) = 1
    /\ \A u \in DOMAIN redemptionsByUser :
          Cardinality({redemptionsByUser[u][i].redemptionId :
                          i \in DOMAIN redemptionsByUser[u]})
              = Len(redemptionsByUser[u])

\* C31: a successful redeemPoints(u, p) appends exactly one redemption, at
\* the end of u's stored sequence, with userId u, points p and a
\* redemptionId that no stored redemption has, and returns that record's
\* redemptionId, userId and points.
C31_AppendsOne == [][C31_SaveStep]_vars /\ []C31_OneRecord

\* alice's call for 200 has returned: her stored sequence is the seeded
\* record followed by the new one
C31_Witness ==
    \E c \in CallIds :
        /\ calls[c].pc = "done" /\ Succeeded(c)
        /\ calls[c].userId = "alice" /\ calls[c].points = 200
        /\ Len(findByUserId("alice")) = 2
        /\ findByUserId("alice")[1].redemptionId = << "red-a1", 0 >>
        /\ findByUserId("alice")[2].redemptionId
              = calls[c].response.redemptionId
        /\ findByUserId("alice")[2].points = 200

C33_EventuallyCompletes ==
    \A c \in CallIds : Launched(c) ~> (calls[c].pc = "done")

\* a call for alice was rejected, and a later call for alice has gone
\* through without having had to wait
C33_Witness ==
    \E c, d \in CallIds :
        /\ calls[c].userId = "alice" /\ calls[d].userId = "alice"
        /\ calls[c].pc = "done" /\ Rejected(c)
        /\ calls[d].pc = "done" /\ Succeeded(d)
        /\ calls[c].seq < calls[d].seq
        /\ activeLocks = << >>

C35_NoLockBetweenCalls ==
    /\ running = 0 => activeLocks = << >>
    /\ \A k \in DOMAIN activeLocks : activeLocks[k] = running
    /\ \A c \in CallIds :
          /\ calls[c].pc # "await"
          /\ calls[c].existingLock = NoLock

\* two calls for alice are over and a third has installed her lock: it
\* found none on entry
C35_Witness ==
    \E c \in CallIds :
        /\ calls[c].pc = "locked" /\ calls[c].userId = "alice"
        /\ running = c
        /\ activeLocks = MapSet(<< >>, "alice", c)
        /\ Cardinality({d \in CallIds :
                           /\ calls[d].pc = "done"
                           /\ calls[d].userId = "alice"}) = 2

\* C36: every userId with a stored redemption has an entry in the order
\* index, and every successful call was made for such a userId; so
\* getRedemptionHistory answers for every userId that has redemptions.
C36_RedemptionUsersExist ==
    /\ \A u \in DOMAIN redemptionsByUser :
          redemptionsByUser[u] # << >>
              => /\ u \in DOMAIN ordersByUser
                 /\ userExists(u)
                 /\ RedemptionHistoryResponse(u).error = "none"
    /\ \A c \in CallIds :
          Succeeded(c) => calls[c].userId \in DOMAIN ordersByUser

\* dave, who had no redemption, has one now, and the unknown zed, who
\* asked for 100, has none
C36_Witness ==
    \E c, d \in CallIds :
        /\ calls[c].pc = "done" /\ Succeeded(c) /\ calls[c].userId = "dave"
        /\ "dave" \in DOMAIN redemptionsByUser
        /\ "dave" \notin DOMAIN SeedRedemptions
        /\ calls[d].pc = "done" /\ calls[d].userId = "zed"
        /\ calls[d].points = 100
        /\ "zed" \notin DOMAIN redemptionsByUser

\* C37, one step: a step that appends no redemption, the step of a
\* getRedemptionHistory call included, leaves the history response of
\* every user as it was, list and order.
C37_Step ==
    ~IsSaveStep
        => \A u \in AllUsers :
              RedemptionHistoryResponse(u)' = RedemptionHistoryResponse(u)

\* C37: two getRedemptionHistory calls for one user with no redemption
\* appended between them return the same list in the same order, the
\* order of redemptions with equal timestamps included.
C37_HistoryRepeatable == [][C37_Step]_vars

\* alice has two redemptions of one timestamp, and a history call has put
\* them in front of the seeded one in the store
C37_Witness ==
    /\ Len(findByUserId("alice")) = 3
    /\ findByUserId("alice")[1].timestamp = findByUserId("alice")[2].timestamp
    /\ findByUserId("alice")[1].redemptionId # findByUserId("alice")[2].redemptionId
    /\ findByUserId("alice")[3] = SeedRedemptions["alice"][1]

\* C38, one step of a redeemPoints call for user u: for every other user
\* v the orders, the redemptions, the getBalance response and the history
\* response are as before.
C38_Step ==
    \A c \in CallIds :
        calls'[c] # calls[c]
            => \A v \in AllUsers \ {calls'[c].userId} :
                  /\ OrderFindByUserId(v)' = OrderFindByUserId(v)
                  /\ MapGet(redemptionsByUser, v, << >>)'
                        = MapGet(redemptionsByUser, v, << >>)
                  /\ getBalance(v)' = getBalance(v)
                  /\ RedemptionHistoryResponse(v)'
                        = RedemptionHistoryResponse(v)

\* C38: a redeemPoints call for user u, successful or not, leaves the
\* orders, the redemptions, the balance and the redemption history of
\* every other user as they were.
C38_UserIsolation == [][C38_Step]_vars

\* dave has redeemed his 200 and alice's call for 200 was accepted after
\* it: each balance went down by the user's own redemption only
C38_Witness ==
    \E c, d \in CallIds :
        /\ calls[c].pc = "done" /\ Succeeded(c) /\ calls[c].userId = "dave"
        /\ calls[d].pc = "done" /\ Succeeded(d) /\ calls[d].userId = "alice"
        /\ calls[d].points = 200
        /\ getBalance("dave").balance = 0
        /\ getBalance("alice").balance = 0
        /\ getBalance("charlie").redeemedPoints = 500

====
